---- MODULE Spec2Model ----
(***************************************************************************)
(* Model of extract_outline.py: the heading classifier (is_body_text,      *)
(* is_structural_heading, get_heading_level), the font profile             *)
(* (analyze_fonts), the outline scan of extract_outline and the batch      *)
(* loop of the main block.                                                 *)
(*                                                                         *)
(* A Python str is a sequence of one-character strings.  A font size is an *)
(* integer number of hundredths of a point (11.96pt is 1196), so that the  *)
(* one-decimal rounding of analyze_fonts is a real operation.              *)
(***************************************************************************)
EXTENDS Integers, Sequences, FiniteSets, TLC

(* ------------------------------ bounds --------------------------------- *)
\* longest run stream of a document in Spec (dedup / order claims)
MaxRuns == 3
\* longest run stream of a document in TitleSpec
MaxTitleRuns == 4
\* longest run stream of a document in ClassifySpec
MaxClassifyRuns == 1
\* longest run stream of a document in FontSpec
MaxFontRuns == 4
\* number of pages of a document
MaxPage == 2
\* number of directory entries in BatchSpec
MaxFiles == 2
\* longest run stream of a document in BatchSpec
MaxBatchRuns == 1

(* ------------------------- characters and str -------------------------- *)
UpperAZ == <<"A","B","C","D","E","F","G","H","I","J","K","L","M","N","O","P","Q","R","S","T","U","V","W","X","Y","Z">>
LowerAZ == <<"a","b","c","d","e","f","g","h","i","j","k","l","m","n","o","p","q","r","s","t","u","v","w","x","y","z">>
Digits == {"0","1","2","3","4","5","6","7","8","9"}

\* \s of re and the characters removed by str.strip()
IsSpace(c) == c \in {" ", "\t", "\n", "\r"}

\* \d
IsDigit(c) == c \in Digits

\* [A-Z]
IsUpper(c) == c \in {"A","B","C","D","E","F","G","H","I","J","K","L","M","N","O","P","Q","R","S","T","U","V","W","X","Y","Z"}

\* the lower-case letter of every upper-case letter
LowerMap == [c \in {UpperAZ[i] : i \in 1..26} |-> LowerAZ[CHOOSE i \in 1..26 : UpperAZ[i] = c]]

LowerChar(c) == IF c \in DOMAIN LowerMap THEN LowerMap[c] ELSE c

\* str.lower()
lower(s) == [i \in 1..Len(s) |-> LowerChar(s[i])]

\* str.startswith
startswith(s, p) == Len(s) >= Len(p) /\ \A i \in 1..Len(p) : s[i] = p[i]

\* str.endswith
endswith(s, p) == Len(s) >= Len(p) /\ \A i \in 1..Len(p) : s[Len(s) - Len(p) + i] = p[i]

\* p in s
contains(s, p) == \E k \in 0..(Len(s) - Len(p)) : \A i \in 1..Len(p) : s[k + i] = p[i]

RECURSIVE lstrip(_)
lstrip(s) == IF s # <<>> /\ IsSpace(Head(s)) THEN lstrip(Tail(s)) ELSE s

RECURSIVE rstrip(_)
rstrip(s) == IF s # <<>> /\ IsSpace(s[Len(s)]) THEN rstrip(SubSeq(s, 1, Len(s) - 1)) ELSE s

\* str.strip()
strip(s) == rstrip(lstrip(s))

\* F(e), with e evaluated once before F is
Apply(F(_), e) == CHOOSE r \in { F(x) : x \in {e} } : TRUE

\* re.sub(r'\s+', ' ', s): a whitespace character that follows another one is
\* removed, every remaining one becomes a space
collapse(s) ==
  LET marked == [i \in 1..Len(s) |->
                   [c |-> s[i], first |-> (i = 1 \/ ~IsSpace(s[i - 1]))]]
      respace(kept) == [i \in 1..Len(kept) |-> IF IsSpace(kept[i].c) THEN " " ELSE kept[i].c]
  IN Apply(respace, SelectSeq(marked, LAMBDA m : ~IsSpace(m.c) \/ m.first))

clean(text) == Apply(collapse, strip(text))

\* sep.join(parts)
RECURSIVE join(_, _)
join(sep, parts) ==
  IF parts = <<>> THEN <<>>
  ELSE IF Len(parts) = 1 THEN parts[1]
  ELSE parts[1] \o sep \o join(sep, Tail(parts))

(* ----------------------- literals of the source ------------------------ *)
L_Space == <<" ">>
L_Colon == <<":">>
L_Dot == <<".">>
L_Dash == <<"-">>
L_At == <<"@">>
L_summary == <<"s","u","m","m","a","r","y">>
L_background == <<"b","a","c","k","g","r","o","u","n","d">>
L_timeline == <<"t","i","m","e","l","i","n","e">>
L_milestones == <<"m","i","l","e","s","t","o","n","e","s">>
L_appendix_ == <<"a","p","p","e","n","d","i","x"," ">>
L_phase_ == <<"p","h","a","s","e"," ">>
L_the_business_plan == <<"t","h","e"," ","b","u","s","i","n","e","s","s"," ","p","l","a","n">>
L_approach_and == <<"a","p","p","r","o","a","c","h"," ","a","n","d">>
L_evaluation_and == <<"e","v","a","l","u","a","t","i","o","n"," ","a","n","d">>
L_Equitable_access == <<"E","q","u","i","t","a","b","l","e"," ","a","c","c","e","s","s">>
L_Shared_decision_making == <<"S","h","a","r","e","d"," ","d","e","c","i","s","i","o","n","-","m","a","k","i","n","g">>
L_Shared_governance == <<"S","h","a","r","e","d"," ","g","o","v","e","r","n","a","n","c","e">>
L_Shared_funding == <<"S","h","a","r","e","d"," ","f","u","n","d","i","n","g">>
L_Local_points == <<"L","o","c","a","l"," ","p","o","i","n","t","s">>
L_Access == <<"A","c","c","e","s","s",":">>
L_Guidance_and_Advice == <<"G","u","i","d","a","n","c","e"," ","a","n","d"," ","A","d","v","i","c","e",":">>
L_Training == <<"T","r","a","i","n","i","n","g",":">>
L_Provincial_Purchasing == <<"P","r","o","v","i","n","c","i","a","l"," ","P","u","r","c","h","a","s","i","n","g">>
L_Technological_Support == <<"T","e","c","h","n","o","l","o","g","i","c","a","l"," ","S","u","p","p","o","r","t",":">>
L_For_each == <<"F","o","r"," ","e","a","c","h">>
L_Ontario == <<"O","n","t","a","r","i","o">>
L_Digital_Library == <<"D","i","g","i","t","a","l"," ","L","i","b","r","a","r","y">>
L_Critical_Component == <<"C","r","i","t","i","c","a","l"," ","C","o","m","p","o","n","e","n","t">>
L_Road_Map_to_Prosperity == <<"R","o","a","d"," ","M","a","p"," ","t","o"," ","P","r","o","s","p","e","r","i","t","y">>
L_What_could_the_ODL == <<"W","h","a","t"," ","c","o","u","l","d"," ","t","h","e"," ","O","D","L">>
L_the_purpose_of_this == <<"t","h","e"," ","p","u","r","p","o","s","e"," ","o","f"," ","t","h","i","s">>
L_will_be_expected_to == <<"w","i","l","l"," ","b","e"," ","e","x","p","e","c","t","e","d"," ","t","o">>
L_must_be_received_by == <<"m","u","s","t"," ","b","e"," ","r","e","c","e","i","v","e","d"," ","b","y">>
L_please_note_that == <<"p","l","e","a","s","e"," ","n","o","t","e"," ","t","h","a","t">>
L_if_you_require == <<"i","f"," ","y","o","u"," ","r","e","q","u","i","r","e">>
L_specifically == <<"s","p","e","c","i","f","i","c","a","l","l","y",",">>
L_given_the == <<"g","i","v","e","n"," ","t","h","e">>
L_for_example == <<"f","o","r"," ","e","x","a","m","p","l","e",",">>
L_however == <<"h","o","w","e","v","e","r",",">>
L_although == <<"a","l","t","h","o","u","g","h">>
L_in_addition_to == <<"i","n"," ","a","d","d","i","t","i","o","n"," ","t","o">>
L_phone == <<"p","h","o","n","e">>
L_email == <<"e","m","a","i","l">>
L_fax == <<"f","a","x">>
L_mail == <<"m","a","i","l">>
L_Summary == <<"S","u","m","m","a","r","y">>
L_Background == <<"B","a","c","k","g","r","o","u","n","d">>
L_The_Business_Plan == <<"T","h","e"," ","B","u","s","i","n","e","s","s"," ","P","l","a","n">>
L_Approach_and == <<"A","p","p","r","o","a","c","h"," ","a","n","d">>
L_Evaluation_and == <<"E","v","a","l","u","a","t","i","o","n"," ","a","n","d">>
L_Appendix == <<"A","p","p","e","n","d","i","x">>
L_Timeline == <<"T","i","m","e","l","i","n","e">>
L_Milestones == <<"M","i","l","e","s","t","o","n","e","s">>
L_Phase == <<"P","h","a","s","e">>
L_Shared_decision == <<"S","h","a","r","e","d"," ","d","e","c","i","s","i","o","n">>
L_Guidance == <<"G","u","i","d","a","n","c","e">>
L_Provincial == <<"P","r","o","v","i","n","c","i","a","l">>
L_Technological == <<"T","e","c","h","n","o","l","o","g","i","c","a","l">>
L_What_could == <<"W","h","a","t"," ","c","o","u","l","d">>
L_Untitled == <<"U","n","t","i","t","l","e","d">>
L_pdf == <<".","p","d","f">>
L_json == <<".","j","s","o","n">>

(* --------------------------- run classifier ---------------------------- *)
\* level returned when get_heading_level returns None
NoLevel == "None"

\* re.match(r'^(Summary|Background|Timeline|Milestones)$', text, re.I)
MainSectionPattern(text) ==
  lower(text) \in {L_summary, L_background, L_timeline, L_milestones}

\* Appendix [A-C]:  under re.I
AppendixPattern(text) ==
  /\ startswith(lower(text), L_appendix_)
  /\ Len(text) >= 11
  /\ lower(text)[10] \in {"a", "b", "c"}
  /\ text[11] = ":"

\* Phase [IVX]+:  under re.I
PhasePattern(text) ==
  /\ startswith(lower(text), L_phase_)
  /\ \E k \in 1..(Len(text) - 7) :
       /\ \A j \in 7..(6 + k) : lower(text)[j] \in {"i", "v", "x"}
       /\ text[7 + k] = ":"

\* re.match(r'^(Appendix [A-C]:|Phase [IVX]+:|The Business Plan)', text, re.I)
PrefixPattern(text) ==
  \/ AppendixPattern(text)
  \/ PhasePattern(text)
  \/ startswith(lower(text), L_the_business_plan)

\* re.match(r'^(Approach and|Evaluation and)', text, re.I)
ApproachPattern(text) ==
  \/ startswith(lower(text), L_approach_and)
  \/ startswith(lower(text), L_evaluation_and)

\* re.match(r'^\d+\.\s+[A-Z]', text)
NumberedSection(text) ==
  \E d \in 1..(Len(text) - 3) :
    /\ \A j \in 1..d : IsDigit(text[j])
    /\ text[d + 1] = "."
    /\ \E w \in 1..(Len(text) - d - 2) :
         /\ \A j \in (d + 2)..(d + 1 + w) : IsSpace(text[j])
         /\ IsUpper(text[d + 2 + w])

principle_patterns ==
  << L_Equitable_access, L_Shared_decision_making, L_Shared_governance,
     L_Shared_funding, L_Local_points, L_Access, L_Guidance_and_Advice,
     L_Training, L_Provincial_Purchasing, L_Technological_Support >>

\* text = text.strip() is the binding of text
is_structural_heading(raw) ==
  \E text \in {strip(raw)} :
    \/ MainSectionPattern(text)
    \/ PrefixPattern(text)
    \/ ApproachPattern(text)
    \/ NumberedSection(text)
    \/ \E i \in 1..Len(principle_patterns) : contains(text, principle_patterns[i])
    \/ startswith(text, L_For_each) /\ endswith(text, L_Colon)
    \/ contains(text, L_Ontario) /\ contains(text, L_Digital_Library) /\ Len(text) > 15
    \/ contains(text, L_Critical_Component) \/ contains(text, L_Road_Map_to_Prosperity)
    \/ startswith(text, L_What_could_the_ODL)

body_phrases ==
  << L_the_purpose_of_this, L_will_be_expected_to, L_must_be_received_by,
     L_please_note_that, L_if_you_require, L_specifically, L_given_the,
     L_for_example, L_however, L_although, L_in_addition_to >>

\* \d{4} found anywhere
FourDigits(s) ==
  \E k \in 0..(Len(s) - 4) : \A i \in 1..4 : IsDigit(s[k + i])

\* re.search(r'@|\d{4}|phone|email|fax|mail', s)
ContactPattern(s) ==
  \/ contains(s, L_At)
  \/ FourDigits(s)
  \/ contains(s, L_phone)
  \/ contains(s, L_email)
  \/ contains(s, L_fax)
  \/ contains(s, L_mail)

\* text = text.strip() is the binding of text, low is text.lower()
is_body_text(raw) ==
  \E text \in {strip(raw)} : \E low \in {lower(text)} :
    \/ Len(text) > 100
    \/ endswith(text, L_Dot) /\ Len(text) > 20
    \/ \E i \in 1..Len(body_phrases) : contains(low, body_phrases[i])
    \/ ContactPattern(low)
    \/ startswith(text, L_Dash) /\ Len(text) > 30

\* size >= large_size and ('Digital Library' in text or 'Critical Component' in text)
H1Rule(text, size, font_stats) ==
  /\ size >= font_stats.large_size
  /\ (contains(text, L_Digital_Library) \/ contains(text, L_Critical_Component))

H2Rule(text) ==
  \/ text \in {L_Summary, L_Background}
  \/ startswith(text, L_The_Business_Plan)
  \/ startswith(text, L_Approach_and)
  \/ startswith(text, L_Evaluation_and)
  \/ startswith(text, L_Appendix)

\* re.match(r'^\d+\.', text)
NumberPrefix(text) ==
  \E d \in 1..(Len(text) - 1) :
    /\ \A j \in 1..d : IsDigit(text[j])
    /\ text[d + 1] = "."

level3_terms ==
  << L_Equitable_access, L_Shared_decision, L_Shared_governance,
     L_Shared_funding, L_Local_points, L_Access, L_Guidance,
     L_Training, L_Provincial, L_Technological, L_What_could >>

H3Rule(text) ==
  \/ startswith(text, L_Timeline)
  \/ startswith(text, L_Milestones)
  \/ startswith(text, L_Phase)
  \/ NumberPrefix(text)
  \/ \E i \in 1..Len(level3_terms) : contains(text, level3_terms[i])

H4Rule(text) == startswith(text, L_For_each) /\ endswith(text, L_Colon)

\* the fallback with > in place of >=
SizeFallback_Strict(size, font_stats) ==
  IF size > font_stats.large_size THEN "H1"
  ELSE IF size > font_stats.medium_size THEN "H2"
  ELSE NoLevel

\* the size fallback for structural headings no content rule matched
SizeFallback(size, font_stats) ==
  IF size >= font_stats.large_size THEN "H1"
  ELSE IF size >= font_stats.medium_size THEN "H2"
  ELSE NoLevel

\* the H2 rule tried before the H1 rule
get_heading_level_H2First(raw, size, font_stats) ==
  LET level(text) ==
        IF H2Rule(text) THEN "H2"
        ELSE IF H1Rule(text, size, font_stats) THEN "H1"
        ELSE IF H3Rule(text) THEN "H3"
        ELSE IF H4Rule(text) THEN "H4"
        ELSE SizeFallback(size, font_stats)
  IN Apply(level, strip(raw))

get_heading_level(raw, size, font_stats) ==
  LET level(text) ==
        IF H1Rule(text, size, font_stats) THEN "H1"
        ELSE IF H2Rule(text) THEN "H2"
        ELSE IF H3Rule(text) THEN "H3"
        ELSE IF H4Rule(text) THEN "H4"
        ELSE SizeFallback(size, font_stats)
  IN Apply(level, strip(raw))

(* ---------------------------- font profile ----------------------------- *)
\* round(size, 1) on hundredths of a point; an exact tie (x.x5) is resolved
\* half-to-even, which is what Python does for the exactly representable
\* x.25 and x.75
round1(size) ==
  LET r == size % 10
      down == size - r
  IN IF r < 5 THEN down
     ELSE IF r > 5 THEN down + 10
     ELSE IF (down \div 10) % 2 = 0 THEN down ELSE down + 10

\* size_counts[round(size, 1)] += 1 over the sizes in order; the dict is a
\* sequence of <<key, count>> items in insertion order
RECURSIVE CountSizes(_, _)
CountSizes(sizes, items) ==
  IF sizes = <<>> THEN items
  ELSE LET k == round1(Head(sizes)) IN
       IF \E i \in 1..Len(items) : items[i][1] = k
       THEN CountSizes(Tail(sizes),
              [i \in 1..Len(items) |->
                 IF items[i][1] = k THEN <<k, items[i][2] + 1>> ELSE items[i]])
       ELSE CountSizes(Tail(sizes), Append(items, <<k, 1>>))

\* the key without the size: -x[1] alone
KeyLess_NoTieBreak(a, b) == a[2] > b[2]

\* key=lambda x: (-x[1], -x[0]) compared as tuples
KeyLess(a, b) == a[2] > b[2] \/ (a[2] = b[2] /\ a[1] > b[1])

\* insert x into the sorted sequence s behind every item not greater than it
RECURSIVE InsertSorted(_, _)
InsertSorted(x, s) ==
  IF s = <<>> THEN <<x>>
  ELSE IF KeyLess(x, Head(s)) THEN <<x>> \o s
  ELSE <<Head(s)>> \o InsertSorted(x, Tail(s))

\* sorted(size_counts.items(), key=...): a stable sort
RECURSIVE SortItems(_)
SortItems(items) ==
  IF items = <<>> THEN <<>>
  ELSE InsertSorted(items[Len(items)], SortItems(SubSeq(items, 1, Len(items) - 1)))

analyze_fonts(lines) ==
  LET sizes == [i \in 1..Len(lines) |-> lines[i].size]
      stats(sorted_sizes) ==
        [ large_size  |-> IF Len(sorted_sizes) > 0 THEN sorted_sizes[1][1] ELSE 1400,
          medium_size |-> IF Len(sorted_sizes) > 1 THEN sorted_sizes[2][1] ELSE 1200,
          body_size   |-> IF Len(sorted_sizes) > 2 THEN sorted_sizes[3][1] ELSE 1100 ]
  IN Apply(stats, SortItems(CountSizes(sizes, <<>>)))

(* --------------------------- text extraction --------------------------- *)
\* a document is a sequence of pages, a page a sequence of lines (of its text
\* blocks, in order), a line a sequence of spans [text, size]
RECURSIVE MaxSize(_)
MaxSize(spans) ==
  IF Len(spans) = 1 THEN spans[1].size
  ELSE LET m == MaxSize(Tail(spans)) IN IF spans[1].size >= m THEN spans[1].size ELSE m

\* [span["text"] for span in line["spans"] if span["text"].strip()]
RECURSIVE TextParts(_)
TextParts(spans) ==
  IF spans = <<>> THEN <<>>
  ELSE IF strip(Head(spans).text) # <<>> THEN <<Head(spans).text>> \o TextParts(Tail(spans))
  ELSE TextParts(Tail(spans))

\* the lines one page appends to all_lines
RECURSIVE PageLines(_, _)
PageLines(lines, page_num) ==
  IF lines = <<>> THEN <<>>
  ELSE LET spans == Head(lines)
           rest == PageLines(Tail(lines), page_num)
           line(text_parts) ==
             IF spans = <<>> \/ text_parts = <<>> THEN <<>>
             ELSE << [ text |-> clean(join(L_Space, text_parts)),
                       size |-> MaxSize(spans),
                       page |-> page_num + 1 ] >>
       IN Apply(line, TextParts(spans)) \o rest

\* for page_num in range(len(doc)): ... all_lines.append(...)
RECURSIVE DocLines(_, _)
DocLines(doc, page_num) ==
  IF page_num >= Len(doc) THEN <<>>
  ELSE PageLines(doc[page_num + 1], page_num) \o DocLines(doc, page_num + 1)

\* the candidates without the cut to three
TitleCandidates_All(lines, font_stats) ==
  SelectSeq(lines, LAMBDA l :
    l.page = 1 /\ l.size >= font_stats.medium_size /\ ~is_body_text(l.text))

\* page1_large: the runs of page 1 at or above medium_size that are no body
\* text, cut to the first three
TitleCandidates(lines, font_stats) ==
  LET page1_large == SelectSeq(lines, LAMBDA l :
                       l.page = 1 /\ l.size >= font_stats.medium_size /\ ~is_body_text(l.text))
  IN SubSeq(page1_large, 1, IF Len(page1_large) < 3 THEN Len(page1_large) ELSE 3)

\* [l["text"] for l in page1_large]
TextsOf(lines) == [i \in 1..Len(lines) |-> lines[i].text]

(* ------------------------------ batch loop ----------------------------- *)
\* os.path.splitext(filename)[0]: cut at the last dot, unless only dots
\* precede it
splitext_root(name) ==
  LET dots == {k \in 1..Len(name) : name[k] = "."} IN
    IF dots = {} THEN name
    ELSE LET k == CHOOSE d \in dots : \A e \in dots : e <= d IN
         IF \E j \in 1..(k - 1) : name[j] # "." THEN SubSeq(name, 1, k - 1) ELSE name

\* os.path.splitext(filename)[0] + ".json", inside output_dir
OutputPath(name) == splitext_root(name) \o L_json

\* filename.lower().endswith(".pdf")
IsPdfName(name) == endswith(lower(name), L_pdf)

\* contents of a path of the output directory
Absent == [state |-> "absent", title |-> <<>>, outline |-> <<>>]
Partial == [state |-> "partial", title |-> <<>>, outline |-> <<>>]
Written(r) == [state |-> "complete", title |-> r.title, outline |-> r.outline]

\* value of a local variable that is not bound yet
Unbound == [title |-> <<>>, outline |-> <<>>]
DefaultStats == [large_size |-> 1400, medium_size |-> 1200, body_size |-> 1100]

VARIABLES
  files,       \* os.listdir(input_dir): entries [name, ok, doc], ok = fitz can open it
  idx,         \* position of the for loop in files
  pc,          \* control point: "list", "analyze", "title", "scan", "write", "done"
  all_lines,   \* extract_outline: all_lines
  font_stats,  \* extract_outline: font_stats
  title,       \* extract_outline: title
  outline,     \* extract_outline: outline
  seen,        \* extract_outline: seen
  pos,         \* extract_outline: index of the run the scan loop is at
  result,      \* main block: result
  output,      \* files of output_dir, by path
  stdout       \* lines printed by the main block: [kind, file]

vars == << files, idx, pc, all_lines, font_stats, title, outline, seen, pos,
           result, output, stdout >>

locals == << all_lines, font_stats, title, outline, seen, pos >>

InitFrom(dirs) ==
  /\ files \in dirs
  /\ idx = 1
  /\ pc = "list"
  /\ all_lines = <<>>
  /\ font_stats = DefaultStats
  /\ title = <<>>
  /\ outline = <<>>
  /\ seen = {}
  /\ pos = 0
  /\ result = Unbound
  /\ output = [p \in {OutputPath(files[i].name) : i \in 1..Len(files)} |-> Absent]
  /\ stdout = <<>>

\* if filename.lower().endswith(".pdf"): false, next file
SkipFile ==
  /\ pc = "list" /\ idx <= Len(files)
  /\ ~IsPdfName(files[idx].name)
  /\ idx' = idx + 1
  /\ UNCHANGED << files, pc, locals, result, output, stdout >>

\* extract_outline: fitz.open and the extraction loop
OpenDocument ==
  /\ pc = "list" /\ idx <= Len(files)
  /\ IsPdfName(files[idx].name)
  /\ files[idx].ok
  /\ all_lines' = DocLines(files[idx].doc, 0)
  /\ pc' = "analyze"
  /\ UNCHANGED << files, idx, font_stats, title, outline, seen, pos, result, output, stdout >>

\* fitz.open raises and nothing catches it: the loop ends
OpenFails_Abort ==
  /\ pc = "list" /\ idx <= Len(files)
  /\ IsPdfName(files[idx].name)
  /\ ~files[idx].ok
  /\ idx' = Len(files) + 1
  /\ UNCHANGED << files, pc, locals, result, output, stdout >>

\* fitz.open raises; except Exception prints the error, next file
OpenFails ==
  /\ pc = "list" /\ idx <= Len(files)
  /\ IsPdfName(files[idx].name)
  /\ ~files[idx].ok
  /\ stdout' = Append(stdout, [kind |-> "Error", file |-> idx])
  /\ idx' = idx + 1
  /\ UNCHANGED << files, pc, locals, result, output >>

\* font_stats = analyze_fonts(all_lines)
AnalyzeFonts ==
  /\ pc = "analyze"
  /\ font_stats' = analyze_fonts(all_lines)
  /\ pc' = "title"
  /\ UNCHANGED << files, idx, all_lines, title, outline, seen, pos, result, output, stdout >>

\* seen kept from the document before
ExtractTitle_KeepSeen ==
  /\ pc = "title"
  /\ \E page1_large \in {TitleCandidates(all_lines, font_stats)} :
       \E joined \in {join(L_Space, TextsOf(page1_large))} :
         title' = clean(joined)
  /\ outline' = <<>>
  /\ pos' = 1
  /\ pc' = "scan"
  /\ UNCHANGED << files, idx, all_lines, font_stats, seen, result, output, stdout >>

\* title, then outline = [] and seen = set()
ExtractTitle ==
  /\ pc = "title"
  /\ \E page1_large \in {TitleCandidates(all_lines, font_stats)} :
       \E joined \in {join(L_Space, TextsOf(page1_large))} :
         title' = clean(joined)
  /\ outline' = <<>>
  /\ seen' = {}
  /\ pos' = 1
  /\ pc' = "scan"
  /\ UNCHANGED << files, idx, all_lines, font_stats, result, output, stdout >>

\* the continue without the test of seen
SkipRun_NoSeen(text, seenTexts) ==
  \/ Len(text) < 4
  \/ is_body_text(text)
  \/ ~is_structural_heading(text)

\* the continue with body text let through when it is structural
SkipRun_StructuralWins(text, seenTexts) ==
  \/ text \in seenTexts
  \/ Len(text) < 4
  \/ ~is_structural_heading(text)

\* the condition of the continue statement of the scan loop
SkipRun(text, seenTexts) ==
  \/ text \in seenTexts
  \/ Len(text) < 4
  \/ is_body_text(text)
  \/ ~is_structural_heading(text)

\* one iteration that takes the continue
ScanSkip ==
  /\ pc = "scan" /\ pos <= Len(all_lines)
  /\ \E text \in {clean(all_lines[pos].text)} : SkipRun(text, seen)
  /\ pos' = pos + 1
  /\ UNCHANGED << files, idx, pc, all_lines, font_stats, title, outline, seen, result, output, stdout >>

\* the entry put in front
AppendEntry_Prepend(entries, entry) == <<entry>> \o entries

\* outline.append({...}) of the scan loop
AppendEntry(entries, entry) == Append(entries, entry)

\* the text is not recorded
AddSeen_Forget(seenTexts, text) == seenTexts

\* seen.add(text) of the scan loop
AddSeen(seenTexts, text) == seenTexts \cup {text}

\* one iteration that gets a level: append the entry, record the text
ScanAppend ==
  /\ pc = "scan" /\ pos <= Len(all_lines)
  /\ \E text \in {clean(all_lines[pos].text)} :
       \E level \in {get_heading_level(text, all_lines[pos].size, font_stats)} :
         /\ ~SkipRun(text, seen)
         /\ level # NoLevel
         /\ outline' = AppendEntry(outline, [level |-> level, text |-> text,
                                             page |-> all_lines[pos].page])
         /\ seen' = AddSeen(seen, text)
  /\ pos' = pos + 1
  /\ UNCHANGED << files, idx, pc, all_lines, font_stats, title, result, output, stdout >>

\* one iteration whose level is None: nothing appended, nothing recorded
ScanDrop ==
  /\ pc = "scan" /\ pos <= Len(all_lines)
  /\ \E text \in {clean(all_lines[pos].text)} :
       /\ ~SkipRun(text, seen)
       /\ get_heading_level(text, all_lines[pos].size, font_stats) = NoLevel
  /\ pos' = pos + 1
  /\ UNCHANGED << files, idx, pc, all_lines, font_stats, title, outline, seen, result, output, stdout >>

\* the dict extract_outline returns
ReturnValue(t, entries) ==
  [title |-> IF t # <<>> THEN t ELSE L_Untitled, outline |-> entries]

\* return {...}; result = extract_outline(pdf_path)
ReturnOutline ==
  /\ pc = "scan" /\ pos > Len(all_lines)
  /\ result' = ReturnValue(title, outline)
  /\ pc' = "write"
  /\ UNCHANGED << files, idx, locals, output, stdout >>

\* open(output_path, "w"), json.dump, print("Processed: ...")
WriteOutput ==
  /\ pc = "write"
  /\ output' = [output EXCEPT ![OutputPath(files[idx].name)] = Written(result)]
  /\ stdout' = Append(stdout, [kind |-> "Processed", file |-> idx])
  /\ idx' = idx + 1
  /\ pc' = "list"
  /\ UNCHANGED << files, locals, result >>

\* open or json.dump raises: the file is untouched (open failed) or truncated
\* (the dump failed); except Exception prints the error, next file
WriteFails ==
  /\ pc = "write"
  /\ \/ UNCHANGED output
     \/ output' = [output EXCEPT ![OutputPath(files[idx].name)] = Partial]
  /\ stdout' = Append(stdout, [kind |-> "Error", file |-> idx])
  /\ idx' = idx + 1
  /\ pc' = "list"
  /\ UNCHANGED << files, locals, result >>

\* the for loop is exhausted
Finish ==
  /\ pc = "list" /\ idx > Len(files)
  /\ pc' = "done"
  /\ UNCHANGED << files, idx, locals, result, output, stdout >>

Next ==
  \/ SkipFile
  \/ OpenDocument
  \/ OpenFails
  \/ AnalyzeFonts
  \/ ExtractTitle
  \/ ScanSkip
  \/ ScanAppend
  \/ ScanDrop
  \/ ReturnOutline
  \/ WriteOutput
  \/ WriteFails
  \/ Finish

(* ------------------------------- inputs -------------------------------- *)
T_Background == <<"B","a","c","k","g","r","o","u","n","d">>
T_summary == <<"s","u","m","m","a","r","y">>
T_Intro == <<"I","n","t","r","o">>
T_Contact == <<"a","@","b">>
T_Part == <<"P","a","r","t">>
T_One == <<" "," ","O","n","e"," ">>
T_Blank == <<" "," ">>
T_Introduction == <<"1","."," ","I","n","t","r","o","d","u","c","t","i","o","n">>
T_NumMail == <<"1","."," ","M","a","i","l">>
T_NumFax == <<"1","."," ","F","a","x"," ","u","s">>
T_NumPhone == <<"1","."," ","P","h","o","n","e">>
T_NumAt == <<"1","."," ","A","@","b">>
T_NumYear == <<"1","."," ","C","a","l","l"," ","2","0","0","3">>
T_NumSentence == <<"1","."," ","T","h","i","s"," ","i","s"," ","a"," ","s","e","n","t","e","n","c","e",".">>
T_NumHowever == <<"1","."," ","H","o","w","e","v","e","r",","," ","n","o">>
T_DashLong == <<"-"," ","C","r","i","t","i","c","a","l"," ","C","o","m","p","o","n","e","n","t"," ","o","f"," ","t","h","e"," ","p","l","a","n">>
T_Ontario == <<"O","n","t","a","r","i","o"," ","D","i","g","i","t","a","l"," ","L","i","b","r","a","r","y">>
T_RoadMap == <<"R","o","a","d"," ","M","a","p"," ","t","o"," ","P","r","o","s","p","e","r","i","t","y">>
T_NumRoadMap == <<"1",".","2"," ","R","o","a","d"," ","M","a","p"," ","t","o"," ","P","r","o","s","p","e","r","i","t","y">>
T_ForEachGuidance == <<"F","o","r"," ","e","a","c","h"," ","G","u","i","d","a","n","c","e",":">>
T_ForEachItem == <<"F","o","r"," ","e","a","c","h"," ","i","t","e","m",":">>
T_AppendixLibrary == <<"A","p","p","e","n","d","i","x"," ","A",":"," ","D","i","g","i","t","a","l"," ","L","i","b","r","a","r","y">>
T_NumCritical == <<"3","."," ","C","r","i","t","i","c","a","l"," ","C","o","m","p","o","n","e","n","t">>
T_Timeline == <<"T","i","m","e","l","i","n","e">>
T_PhasePlan == <<"P","h","a","s","e"," ","I","I",":"," ","P","l","a","n">>
T_BusinessPlan == <<"T","h","e"," ","B","u","s","i","n","e","s","s"," ","P","l","a","n">>
T_WhatCould == <<"W","h","a","t"," ","c","o","u","l","d"," ","t","h","e"," ","O","D","L"," ","d","o">>
T_Training == <<"T","r","a","i","n","i","n","g",":"," ","n","o","w">>
T_NumA == <<"1","."," ","A">>
N_a_pdf == <<"a",".","p","d","f">>
N_b_PDF == <<"b",".","P","D","F">>
N_notes_txt == <<"n",".","t","x","t">>

\* n copies of the character c
Repeat(c, n) == [i \in 1..n |-> c]

\* a numbered heading of 100 characters, and one of 101
T_Long100 == T_NumA \o Repeat("a", 96)
T_Long101 == T_NumA \o Repeat("a", 97)

\* a line of one span
OneSpan(text, size) == << [text |-> text, size |-> size] >>

\* lines of one span over texts and sizes
LinesOf(texts, sizes) == { OneSpan(t, s) : t \in texts, s \in sizes }

\* all sequences over S of length at most n
SeqsUpTo(S, n) == UNION { [1..k -> S] : k \in 0..n }

\* the non-decreasing assignments of pages 1..maxPage to n lines
PageAssignments(n, maxPage) ==
  { pg \in [1..n -> 1..maxPage] : \A i \in 1..(n - 1) : pg[i] <= pg[i + 1] }

RECURSIVE LinesOnPage(_, _, _)
LinesOnPage(ls, pg, p) ==
  IF ls = <<>> THEN <<>>
  ELSE (IF pg[1] = p THEN <<ls[1]>> ELSE <<>>)
         \o LinesOnPage(Tail(ls), Tail(pg), p)

\* the documents of maxPage pages holding at most maxLen lines of vocab
DocsOver(vocab, maxLen, maxPage) ==
  UNION { { [p \in 1..maxPage |-> LinesOnPage(ls, pg, p)] :
              pg \in PageAssignments(Len(ls), maxPage) } :
          ls \in SeqsUpTo(vocab, maxLen) }

PdfFile(name, doc) == [name |-> name, ok |-> TRUE, doc |-> doc]
CorruptFile(name) == [name |-> name, ok |-> FALSE, doc |-> <<>>]

\* directories of one entry: a readable PDF of docs, a corrupt PDF, or a
\* file that is no PDF
SingleFileDirs(docs) ==
  { << PdfFile(N_a_pdf, d) >> : d \in docs }
    \cup { << CorruptFile(N_b_PDF) >>, << CorruptFile(N_notes_txt) >> }

\* directories of at most maxFiles entries with distinct names
BatchDirs(docs, maxFiles) ==
  LET entries == { PdfFile(n, d) : n \in {N_a_pdf, N_b_PDF}, d \in docs }
                   \cup { CorruptFile(n) : n \in {N_a_pdf, N_b_PDF, N_notes_txt} }
  IN { fs \in SeqsUpTo(entries, maxFiles) :
         \A i, j \in 1..Len(fs) : i # j => fs[i].name # fs[j].name }

ScanVocab == LinesOf({T_Background, T_summary}, {1000, 1196, 1400})

TitleVocab ==
  LinesOf({T_summary}, {1196, 1400})
    \cup { OneSpan(T_Contact, 1400),
           << [text |-> T_Part, size |-> 1000], [text |-> T_Blank, size |-> 1400],
              [text |-> T_One, size |-> 1400] >> }

ClassifyVocab ==
  LinesOf({ T_Background, T_summary, T_Intro, T_Introduction, T_NumMail,
            T_NumFax, T_NumPhone, T_NumAt, T_NumYear, T_NumSentence,
            T_NumHowever, T_DashLong, T_Ontario, T_RoadMap, T_NumRoadMap,
            T_ForEachGuidance, T_ForEachItem, T_AppendixLibrary,
            T_NumCritical, T_Timeline, T_PhasePlan, T_BusinessPlan,
            T_WhatCould, T_Training, T_Long100, T_Long101 },
          {1196, 1396, 1400})
    \cup { OneSpan(T_Blank, 1400), <<>> }

FontVocab == LinesOf({T_summary}, {1000, 1196, 1200, 1300, 1400})

BatchVocab == LinesOf({T_Background}, {1400}) \cup LinesOf({T_summary}, {1196})
                \cup LinesOf({T_Contact}, {1400})

(* --------------------------- specifications ---------------------------- *)
Init == InitFrom(SingleFileDirs(DocsOver(ScanVocab, MaxRuns, MaxPage)))
Spec == Init /\ [][Next]_vars

TitleInit == InitFrom(SingleFileDirs(DocsOver(TitleVocab, MaxTitleRuns, MaxPage)))
TitleSpec == TitleInit /\ [][Next]_vars

ClassifyInit == InitFrom(SingleFileDirs(DocsOver(ClassifyVocab, MaxClassifyRuns, 1)))
ClassifySpec == ClassifyInit /\ [][Next]_vars

FontInit == InitFrom(SingleFileDirs(DocsOver(FontVocab, MaxFontRuns, 1)))
FontSpec == FontInit /\ [][Next]_vars

BatchInit == InitFrom(BatchDirs(DocsOver(BatchVocab, MaxBatchRuns, 1), MaxFiles))
BatchSpec == BatchInit /\ [][Next]_vars

\* the loop is sequential code that always takes its next step
FairBatchSpec == BatchInit /\ [][Next]_vars /\ WF_vars(Next)

(* ------------------------ claims: the outline scan --------------------- *)
\* the scan of the current document has started (outline and seen are its own)
Scanning == pc \in {"scan", "write"}

\* indices of the runs the scan loop has already processed
Processed == 1..(pos - 1)

EntryTexts(entries) == { entries[k].text : k \in 1..Len(entries) }

\* run i passes the body-text filter and the structural-pattern gate
Structural(i) ==
  /\ ~is_body_text(all_lines[i].text)
  /\ is_structural_heading(all_lines[i].text)

\* run i is given a level under the profile of its document
Levelled(i) ==
  get_heading_level(all_lines[i].text, all_lines[i].size, font_stats) # NoLevel

\* pairs of runs with the same structural text on different pages
RepeatedPairs ==
  { jk \in (1..Len(all_lines)) \X (1..Len(all_lines)) :
      /\ jk[1] < jk[2]
      /\ all_lines[jk[1]].text = all_lines[jk[2]].text
      /\ all_lines[jk[1]].page # all_lines[jk[2]].page
      /\ Structural(jk[1]) }

EntriesWithText(t) == { k \in 1..Len(outline) : outline[k].text = t }

FirstIndex(S) == CHOOSE i \in S : \A j \in S : i <= j

\* C1 as stated: a structural text that occurs on two pages has exactly one
\* entry, on the page of its first occurrence, whatever the sizes of the runs
C1_Original ==
  pc = "write" =>
    \A jk \in RepeatedPairs :
      LET t == all_lines[jk[1]].text
          occ == { i \in 1..Len(all_lines) : all_lines[i].text = t }
      IN /\ Cardinality(EntriesWithText(t)) = 1
         /\ \A k \in EntriesWithText(t) :
              outline[k].page = all_lines[FirstIndex(occ)].page

\* C1 amended: a structural text that occurs on two pages has at most one
\* entry; it has one exactly when some run with that text is given a level,
\* and the entry is on the page of the first run with that text that is given
\* a level
C1_FirstLevelledOccurrence ==
  pc = "write" =>
    \A jk \in RepeatedPairs :
      LET t == all_lines[jk[1]].text
          occ == { i \in 1..Len(all_lines) : all_lines[i].text = t /\ Levelled(i) }
      IN /\ Cardinality(EntriesWithText(t)) = (IF occ = {} THEN 0 ELSE 1)
         /\ \A k \in EntriesWithText(t) :
              outline[k].page = all_lines[FirstIndex(occ)].page

\* a text repeated on two pages at two sizes whose first run has no level and
\* whose later run made the entry
C1_Witness ==
  /\ pc = "write"
  /\ \E jk \in RepeatedPairs :
       /\ all_lines[jk[1]].size # all_lines[jk[2]].size
       /\ ~Levelled(jk[1])
       /\ \E k \in EntriesWithText(all_lines[jk[1]].text) :
            outline[k].page = all_lines[jk[2]].page

\* C2: at every point of the scan and in the result, no two outline entries
\* have the same text
C2_UniqueTexts ==
  /\ \A i, j \in 1..Len(outline) : i # j => outline[i].text # outline[j].text
  /\ \A i, j \in 1..Len(result.outline) :
       i # j => result.outline[i].text # result.outline[j].text

\* the scan has passed a run whose text already had an entry, on another page
\* and at another size
C2_Witness ==
  /\ Scanning
  /\ \E j, k \in Processed :
       /\ j < k
       /\ all_lines[j].text = all_lines[k].text
       /\ all_lines[j].page # all_lines[k].page
       /\ all_lines[j].size # all_lines[k].size
       /\ Levelled(j) /\ Levelled(k)
       /\ all_lines[j].text \in EntryTexts(outline)

\* the run stream is ordered by page
PageOrdered == \A i \in 1..(Len(all_lines) - 1) : all_lines[i].page <= all_lines[i + 1].page

\* C6: at every step of the scan the entries are an order-preserving
\* subsequence of the processed runs, carrying their text and page, and over a
\* page-ordered stream their pages never decrease
C6_ScanOrder ==
  Scanning =>
    /\ \E f \in [1..Len(outline) -> Processed] :
         /\ \A k \in 1..(Len(outline) - 1) : f[k] < f[k + 1]
         /\ \A k \in 1..Len(outline) :
              /\ outline[k].text = all_lines[f[k]].text
              /\ outline[k].page = all_lines[f[k]].page
    /\ PageOrdered =>
         \A k \in 1..(Len(outline) - 1) : outline[k].page <= outline[k + 1].page

\* two entries from different pages with different texts
C6_Witness ==
  /\ Scanning
  /\ Len(outline) >= 2
  /\ outline[1].page < outline[2].page
  /\ outline[1].text # outline[2].text

(* --------------------------- claims: the title ------------------------- *)
\* the page-1 runs at or above mediumSize that is_body_text does not reject
TitleRuns ==
  { i \in 1..Len(all_lines) :
      /\ all_lines[i].page = 1
      /\ all_lines[i].size >= font_stats.medium_size
      /\ ~is_body_text(all_lines[i].text) }

\* the first three of them in document order
FirstThree == { i \in TitleRuns : Cardinality({ j \in TitleRuns : j < i }) < 3 }

\* the texts of the runs of S, in document order, with one space between them
RECURSIVE SpaceJoined(_)
SpaceJoined(S) ==
  IF S = {} THEN <<>>
  ELSE LET i == FirstIndex(S) IN
       IF S = {i} THEN all_lines[i].text
       ELSE all_lines[i].text \o <<" ">> \o SpaceJoined(S \ {i})

\* C5: the title is the single-space join of the first three page-1 runs at
\* or above mediumSize that are not body text, it is "Untitled" when there is
\* none, it is never empty, and the empty run stream gives "Untitled" and no
\* entries
C5_Title ==
  pc = "write" =>
    /\ result.title = (IF TitleRuns = {} THEN L_Untitled ELSE SpaceJoined(FirstThree))
    /\ result.title # <<>>
    /\ all_lines = <<>> => result = [title |-> L_Untitled, outline |-> <<>>]

\* four candidate runs on page 1, the first three not all with the same text
C5_Witness ==
  /\ pc = "write"
  /\ Cardinality(TitleRuns) >= 4
  /\ \E i, j \in FirstThree : all_lines[i].text # all_lines[j].text
  /\ result.title # L_Untitled

(* ------------------------ claims: the font profile --------------------- *)
RoundedSizes == { round1(all_lines[i].size) : i \in 1..Len(all_lines) }

Frequency(s) == Cardinality({ i \in 1..Len(all_lines) : round1(all_lines[i].size) = s })

\* a ranks before b: more frequent, or as frequent and larger
RanksBefore(a, b) ==
  \/ Frequency(a) > Frequency(b)
  \/ Frequency(a) = Frequency(b) /\ a > b

\* the size of rank k, or the default when there are fewer than k sizes
Tier(k, default) ==
  IF Cardinality(RoundedSizes) < k THEN default
  ELSE CHOOSE s \in RoundedSizes :
         Cardinality({ t \in RoundedSizes : RanksBefore(t, s) }) = k - 1

\* the run stream with runs i and j exchanged
Swapped(i, j) ==
  [k \in 1..Len(all_lines) |->
     IF k = i THEN all_lines[j] ELSE IF k = j THEN all_lines[i] ELSE all_lines[k]]

\* C7: the profile holds the first, second and third rounded size by
\* descending frequency, ties by descending size, with the defaults 14, 12, 11
\* exactly for the ranks the document has no size for, and it is the same for
\* every order of the runs
C7_Profile ==
  pc = "title" =>
    /\ font_stats = [ large_size |-> Tier(1, 1400),
                      medium_size |-> Tier(2, 1200),
                      body_size |-> Tier(3, 1100) ]
    /\ \A i, j \in 1..Len(all_lines) : analyze_fonts(Swapped(i, j)) = font_stats

\* three sizes of which the most frequent is the smallest, and two that tie
C7_Witness ==
  /\ pc = "title"
  /\ Cardinality(RoundedSizes) >= 3
  /\ font_stats.large_size < font_stats.body_size
  /\ Frequency(font_stats.medium_size) = Frequency(font_stats.body_size)
  /\ \E i \in 1..Len(all_lines) : all_lines[i].size # round1(all_lines[i].size)

(* ------------------------- claims: the classifier ---------------------- *)
\* s contains p, whatever the case of its letters
ContainsAnyCase(s, p) == contains(lower(s), lower(p))

\* stage 1 as the claim lists it
Stage1Rejects(text) ==
  \/ Len(text) > 100
  \/ text # <<>> /\ text[Len(text)] = "." /\ Len(text) > 20
  \/ \E i \in 1..Len(body_phrases) : ContainsAnyCase(text, body_phrases[i])
  \/ \E k \in 1..Len(text) : text[k] = "@"
  \/ \E k \in 1..(Len(text) - 3) : \A d \in 0..3 : text[k + d] \in Digits
  \/ \E w \in {L_phone, L_email, L_fax, L_mail} : ContainsAnyCase(text, w)
  \/ text # <<>> /\ text[1] = "-" /\ Len(text) > 30

\* C3: no outline entry, during the scan, in the result or in a written
\* file, has a text stage 1 rejects
C3_BodyNeverHeading ==
  /\ \A k \in 1..Len(outline) : ~Stage1Rejects(outline[k].text)
  /\ \A k \in 1..Len(result.outline) : ~Stage1Rejects(result.outline[k].text)
  /\ \A p \in DOMAIN output :
       \A k \in 1..Len(output[p].outline) : ~Stage1Rejects(output[p].outline[k].text)

\* the scan has passed a run stage 1 rejects that is a numbered section at or
\* above largeSize
C3_Witness ==
  /\ Scanning
  /\ \E i \in Processed :
       /\ Stage1Rejects(all_lines[i].text)
       /\ NumberedSection(all_lines[i].text)
       /\ all_lines[i].size >= font_stats.large_size
       /\ all_lines[i].text \notin EntryTexts(outline)

\* the level get_heading_level gives run i under the profile of the document
LevelOf(i) == get_heading_level(all_lines[i].text, all_lines[i].size, font_stats)

StartsWithAny(text, prefixes) == \E p \in prefixes : startswith(text, p)
ContainsAny(text, terms) == \E t \in terms : contains(text, t)

\* the content rules H1, H2, H4 as the claims state them
RuleH1(i) ==
  /\ all_lines[i].size >= font_stats.large_size
  /\ ContainsAny(all_lines[i].text, {L_Digital_Library, L_Critical_Component})

RuleH2(i) ==
  \/ all_lines[i].text \in {L_Summary, L_Background}
  \/ StartsWithAny(all_lines[i].text,
       {L_The_Business_Plan, L_Approach_and, L_Evaluation_and, L_Appendix})

RuleH4(i) ==
  /\ startswith(all_lines[i].text, L_For_each)
  /\ all_lines[i].text[Len(all_lines[i].text)] = ":"

\* the principle/service vocabulary of the structural gate
GateVocabulary ==
  { L_Equitable_access, L_Shared_decision_making, L_Shared_governance,
    L_Shared_funding, L_Local_points, L_Access, L_Guidance_and_Advice,
    L_Training, L_Provincial_Purchasing, L_Technological_Support }

\* the terms level assignment looks for
LevelVocabulary ==
  { L_Equitable_access, L_Shared_decision, L_Shared_governance,
    L_Shared_funding, L_Local_points, L_Access, L_Guidance,
    L_Training, L_Provincial, L_Technological }

\* one or more digits and a period at the start of the text
DigitsThenPeriod(text) ==
  \E d \in 1..(Len(text) - 1) :
    /\ \A j \in 1..d : text[j] \in Digits
    /\ text[d + 1] = "."

\* H3 as stated: numbered-section pattern, gate vocabulary
RuleH3_Stated(i) ==
  \/ StartsWithAny(all_lines[i].text, {L_Timeline, L_Milestones, L_Phase})
  \/ NumberedSection(all_lines[i].text)
  \/ ContainsAny(all_lines[i].text, GateVocabulary \cup {L_What_could})

\* H3 with the terms of level assignment in place of the gate vocabulary
RuleH3_Terms(i) ==
  \/ StartsWithAny(all_lines[i].text, {L_Timeline, L_Milestones, L_Phase})
  \/ NumberedSection(all_lines[i].text)
  \/ ContainsAny(all_lines[i].text, LevelVocabulary \cup {L_What_could})

\* H3 with those terms and with digits and a period at the start in place of
\* the numbered-section pattern
RuleH3_Prefix(i) ==
  \/ StartsWithAny(all_lines[i].text, {L_Timeline, L_Milestones, L_Phase})
  \/ DigitsThenPeriod(all_lines[i].text)
  \/ ContainsAny(all_lines[i].text, LevelVocabulary \cup {L_What_could})

\* the level of the first matching rule in the order H1, H2, H3, H4
FirstRule(h1, h2, h3, h4) ==
  IF h1 THEN "H1" ELSE IF h2 THEN "H2" ELSE IF h3 THEN "H3" ELSE IF h4 THEN "H4"
  ELSE "none"

\* the profile of the concrete scenario
ScenarioProfile == [large_size |-> 1400, medium_size |-> 1300, body_size |-> 1100]

\* C4 as stated: a structural run gets the level of the first content rule
\* that matches it; Background below largeSize is H2; "1. Introduction" at
\* size 13 under {14, 13, 11} is H3
C4_Original ==
  Scanning =>
    /\ \A i \in 1..Len(all_lines) :
         Structural(i) =>
           LET first == FirstRule(RuleH1(i), RuleH2(i), RuleH3_Stated(i), RuleH4(i))
           IN first # "none" => LevelOf(i) = first
    /\ get_heading_level(T_Introduction, 1300, ScenarioProfile) = "H3"

\* C4 amended: the same, where H3 looks for the terms 'Shared decision',
\* 'Guidance', 'Provincial', 'Technological' instead of 'Shared
\* decision-making', 'Guidance and Advice:', 'Provincial Purchasing',
\* 'Technological Support:'
C4_FirstMatchingRule ==
  Scanning =>
    /\ \A i \in 1..Len(all_lines) :
         Structural(i) =>
           LET first == FirstRule(RuleH1(i), RuleH2(i), RuleH3_Terms(i), RuleH4(i))
           IN first # "none" => LevelOf(i) = first
    /\ \A i \in 1..Len(all_lines) :
         all_lines[i].text = L_Background /\ all_lines[i].size < font_stats.large_size
           => LevelOf(i) = "H2"
    /\ get_heading_level(T_Introduction, 1300, ScenarioProfile) = "H3"

\* an entry whose run matches the rule of its level and a later rule too: H1
\* before H2 at largeSize
C4_Witness ==
  /\ Scanning
  /\ \E i \in Processed :
       /\ Structural(i)
       /\ RuleH1(i) /\ RuleH2(i)
       /\ \E k \in 1..Len(outline) :
            outline[k].text = all_lines[i].text /\ outline[k].level = "H1"

\* run i matches no content rule
NoRule_Stated(i) == FirstRule(RuleH1(i), RuleH2(i), RuleH3_Stated(i), RuleH4(i)) = "none"
NoRule_Prefix(i) == FirstRule(RuleH1(i), RuleH2(i), RuleH3_Prefix(i), RuleH4(i)) = "none"

\* H1 at or above largeSize, else H2 at or above mediumSize, else no level
FallbackLevel(i) ==
  IF all_lines[i].size >= font_stats.large_size THEN "H1"
  ELSE IF all_lines[i].size >= font_stats.medium_size THEN "H2"
  ELSE NoLevel

\* C10 as stated, with the content rules as C4 states them: a structural run
\* that matches none of them gets the size fallback
C10_Original ==
  Scanning =>
    \A i \in 1..Len(all_lines) :
      Structural(i) /\ NoRule_Stated(i) => LevelOf(i) = FallbackLevel(i)

\* the scan loop is at a structural run that gets no level
AtUnlevelledRun ==
  /\ pc = "scan" /\ pos <= Len(all_lines)
  /\ Structural(pos)
  /\ LevelOf(pos) = NoLevel

\* C10 amended: a structural run that matches none of the content rules,
\* where H3 matches any text that starts with digits and a period and the
\* terms of level assignment, gets H1 at or above largeSize, else H2 at or
\* above mediumSize, else no level; only such a run below both sizes gets no
\* level, and the step over it adds no entry and records nothing as seen
C10_SizeFallback ==
  /\ [](Scanning =>
          \A i \in 1..Len(all_lines) :
            Structural(i) =>
              /\ NoRule_Prefix(i) => LevelOf(i) = FallbackLevel(i)
              /\ LevelOf(i) = NoLevel <=>
                   /\ NoRule_Prefix(i)
                   /\ all_lines[i].size < font_stats.large_size
                   /\ all_lines[i].size < font_stats.medium_size)
  /\ [][AtUnlevelledRun => outline' = outline /\ seen' = seen]_vars

\* the scan has passed a structural run that matched no content rule and was
\* below mediumSize: it has no entry and is not in seen
C10_Witness ==
  /\ Scanning
  /\ \E i \in Processed :
       /\ Structural(i)
       /\ NoRule_Prefix(i)
       /\ all_lines[i].size < font_stats.medium_size
       /\ all_lines[i].text \notin seen
       /\ all_lines[i].text \notin EntryTexts(outline)

(* -------------------------- claims: the batch -------------------------- *)
\* the main block printed a line of this kind for file i
Reported(i, kind) == \E k \in 1..Len(stdout) : stdout[k] = [kind |-> kind, file |-> i]

\* every .pdf entry has exactly one line, every other entry none
AllPdfsReported ==
  \A i \in 1..Len(files) :
    Cardinality({ k \in 1..Len(stdout) : stdout[k].file = i })
      = (IF IsPdfName(files[i].name) THEN 1 ELSE 0)

\* a file with an error line has no "Processed" line and no complete output,
\* and a file fitz cannot open never has a "Processed" line
FailureLeavesNoResult ==
  \A i \in 1..Len(files) :
    /\ Reported(i, "Error") =>
         /\ ~Reported(i, "Processed")
         /\ output[OutputPath(files[i].name)].state # "complete"
    /\ ~files[i].ok => ~Reported(i, "Processed")

\* C8: whatever files fail, the loop reaches its end with every .pdf entry
\* either written or reported as an error, and a failing file leaves no
\* outline result
C8_BatchCompletes ==
  /\ <>(pc = "done" /\ AllPdfsReported)
  /\ []FailureLeavesNoResult

\* the batch ended after a first file that failed and a later file that was
\* written
C8_Witness ==
  /\ pc = "done"
  /\ Len(files) >= 2
  /\ Reported(1, "Error")
  /\ \E i \in 2..Len(files) :
       /\ Reported(i, "Processed")
       /\ output[OutputPath(files[i].name)].state = "complete"

\* the scan of lines from run k on, as a function of its arguments alone
RECURSIVE ScanFrom(_, _, _, _, _)
ScanFrom(lines, stats, k, entries, seenTexts) ==
  IF k > Len(lines) THEN entries
  ELSE LET text == clean(lines[k].text)
           level == get_heading_level(text, lines[k].size, stats)
       IN IF SkipRun(text, seenTexts) \/ level = NoLevel
          THEN ScanFrom(lines, stats, k + 1, entries, seenTexts)
          ELSE ScanFrom(lines, stats, k + 1,
                        Append(entries, [level |-> level, text |-> text, page |-> lines[k].page]),
                        seenTexts \cup {text})

\* what extract_outline returns for a document processed on its own
AloneResult(doc) ==
  LET lines == DocLines(doc, 0)
      stats == analyze_fonts(lines)
      heading == clean(join(L_Space, TextsOf(TitleCandidates(lines, stats))))
  IN ReturnValue(heading, ScanFrom(lines, stats, 1, <<>>, {}))

\* C9: the result returned for a document, and every file written, is what
\* the document gives when processed on its own, whatever was processed
\* before it; two files with the same run stream get the same output
C9_NoCarryOver ==
  /\ pc = "write" => result = AloneResult(files[idx].doc)
  /\ \A i \in 1..Len(files) :
       output[OutputPath(files[i].name)].state = "complete"
         => output[OutputPath(files[i].name)] = Written(AloneResult(files[i].doc))
  /\ \A i, j \in 1..Len(files) :
       /\ files[i].doc = files[j].doc
       /\ output[OutputPath(files[i].name)].state = "complete"
       /\ output[OutputPath(files[j].name)].state = "complete"
       => output[OutputPath(files[i].name)] = output[OutputPath(files[j].name)]

\* a second document was given its entry although the document before it,
\* with the same run stream, had recorded the same text as seen
C9_Witness ==
  /\ pc = "write"
  /\ idx = 2
  /\ Reported(1, "Processed")
  /\ files[1].doc = files[2].doc
  /\ Len(result.outline) >= 1
  /\ output[OutputPath(files[1].name)] = Written(result)
====
